---------------------------- MODULE Spec2Model ----------------------------
(***************************************************************************)
(* Model of the contact-form flow of main.py (FastAPI portfolio app):      *)
(* sanitize_text, is_valid_email, validate_contact_fields, missing_envs,   *)
(* build_email, send_email and the POST /contato/ and GET /healthz         *)
(* handlers running on one event-loop thread.                              *)
(*                                                                         *)
(* Text is a sequence of one-character strings.  Fixed literals of the     *)
(* source (subject prefix, body template pieces, detail messages) are kept *)
(* as single tokens.                                                       *)
(***************************************************************************)
EXTENDS Naturals, Sequences, FiniteSets

VARIABLES
    env,    \* module globals EMAIL_SENDER / EMAIL_PASSWORD / EMAIL_RECEIVER
    req,    \* per request: the handler coroutine's locals and position
    loop,   \* request whose coroutine runs on the event-loop thread, 0 = idle
    pool,   \* requests whose send runs on an EXECUTOR worker thread
    smtp,   \* calls of send_email_sync made so far: <<request, message>>
    arg,    \* argument of a direct call of a pure function
    ret     \* its result

vars == <<env, req, loop, pool, smtp, arg, ret>>

---------------------------------------------------------------------------
(* Bounds of the model *)

\* requests handled concurrently (SpecConc)
NumReqs == 2
\* length of the texts given to sanitize_text (SpecSan)
MaxLen == 4
\* how far past its configured maximum a field given to the validator runs
Over == 1

(* Configured limits: int(os.getenv(...)) read at import; the model runs the *)
(* program configured with small limits.                                    *)
MAX_NAME_LEN == 2
MAX_EMAIL_LEN == 5
MAX_MESSAGE_LEN == 2

---------------------------------------------------------------------------
(* Characters *)

SP   == " "
NUL  == "<0x00>"
LF   == "<0x0A>"
DEL  == "<0x7F>"
NBSP == "<0xA0>"

\* the class [\x00-\x1F\x7F] of the pattern in sanitize_text
ControlChars == {NUL, LF, DEL}
\* characters str.strip() removes (str.isspace): LF is both
Whitespace == {SP, LF, NBSP}

Chars == {"a", SP, NUL, LF, DEL, NBSP}

Strs(A, n) == UNION {[1..k -> A] : k \in 0..n}

Min(S) == CHOOSE x \in S : \A y \in S : x <= y
Max(S) == CHOOSE x \in S : \A y \in S : x >= y

---------------------------------------------------------------------------
(* sanitize_text *)

\* re.sub(r"[\x00-\x1F\x7F]", "", text)
RemoveControl(text) == SelectSeq(text, LAMBDA c : c \notin ControlChars)

\* str.strip()
Strip(s) ==
    LET keep == {i \in 1..Len(s) : s[i] \notin Whitespace}
    IN  IF keep = {} THEN <<>> ELSE SubSeq(s, Min(keep), Max(keep))

\* a slip: trimming before the control characters are removed
sanitize_text_StripFirst(text) == RemoveControl(Strip(text))

sanitize_text(text) == Strip(RemoveControl(text))

---------------------------------------------------------------------------
(* is_valid_email: EMAIL_REGEX = ^[^@]+@[^@]+\.[^@]+$ applied with match() *)

\* positions where [^@]+ can end when it starts right after a position of From
NonAtRun(s, From) ==
    {m \in 1..Len(s) : \E k \in From : k < m /\ \A x \in (k+1)..m : s[x] # "@"}

\* positions where the literal c can end when it starts right after From
Literal(s, From, c) ==
    {k + 1 : k \in {j \in From : j < Len(s) /\ s[j+1] = c}}

\* "$": the end of the text, or just before a final newline
AtEnd(s, k) == k = Len(s) \/ (k = Len(s) - 1 /\ s[Len(s)] = LF)

is_valid_email(email) ==
    LET local  == NonAtRun(email, {0})
        at     == Literal(email, local, "@")
        domain == NonAtRun(email, at)
        dot    == Literal(email, domain, ".")
        tld    == NonAtRun(email, dot)
    IN  \E k \in tld : AtEnd(email, k)

---------------------------------------------------------------------------
(* JSON values of the request body, as request.json() returns them *)

JNull   == [t |-> "null",   v |-> <<>>]       \* null, and what data.get gives for a missing key
JZero   == [t |-> "number", v |-> <<"0">>]    \* a falsy value that is no string
JFive   == [t |-> "number", v |-> <<"5">>]    \* a truthy value that is no string
JStr(s) == [t |-> "string", v |-> s]

Truthy(x) ==
    CASE x.t = "null"   -> FALSE
      [] x.t = "number" -> x.v # <<"0">>
      [] x.t = "string" -> x.v # <<>>

\* x or ""
OrEmpty(x) == IF Truthy(x) THEN x ELSE JStr(<<>>)

JDict(n, e, m) == [kind |-> "dict", nome |-> n, email |-> e, mensagem |-> m]
\* a body that parses to a JSON value that is no object (a list, a string, ...)
JList == [kind |-> "list", nome |-> JNull, email |-> JNull, mensagem |-> JNull]
\* a body request.json() cannot parse
Malformed == [kind |-> "malformed", nome |-> JNull, email |-> JNull, mensagem |-> JNull]

---------------------------------------------------------------------------
(* validate_contact_fields *)

MSG_EMPTY     == <<"Por favor, preencha todos os campos.">>
MSG_NAME_LONG == <<"Nome muito longo.">>
MSG_MAIL_LONG == <<"Email muito longo.">>
MSG_TEXT_LONG == <<"Mensagem muito longa.">>
MSG_MAIL_BAD  == <<"Por favor, insira um e-mail válido.">>

NoFields == [nome |-> <<>>, email |-> <<>>, mensagem |-> <<>>]

\* the three sanitize_text(data.get(k) or "") lines, in order; exc names the
\* exception that leaves the function: data.get is no attribute of a value
\* that is no dict, re.sub rejects an argument that is no str
SanitizeFields(data) ==
    LET n == OrEmpty(data.nome)
        e == OrEmpty(data.email)
        m == OrEmpty(data.mensagem)
    IN  IF data.kind # "dict"
          THEN [exc |-> "AttributeError", f |-> NoFields]
        ELSE IF n.t # "string" \/ e.t # "string" \/ m.t # "string"
          THEN [exc |-> "TypeError", f |-> NoFields]
        ELSE [exc |-> "", f |-> [nome     |-> sanitize_text(n.v),
                                 email    |-> sanitize_text(e.v),
                                 mensagem |-> sanitize_text(m.v)]]

\* a slip: >= where the limits are compared
CheckRules_OffByOne(f) ==
    IF f.nome = <<>> \/ f.email = <<>> \/ f.mensagem = <<>> THEN [status |-> 400, detail |-> MSG_EMPTY]
    ELSE IF Len(f.nome) >= MAX_NAME_LEN THEN [status |-> 400, detail |-> MSG_NAME_LONG]
    ELSE IF Len(f.email) >= MAX_EMAIL_LEN THEN [status |-> 400, detail |-> MSG_MAIL_LONG]
    ELSE IF Len(f.mensagem) >= MAX_MESSAGE_LEN THEN [status |-> 400, detail |-> MSG_TEXT_LONG]
    ELSE IF ~is_valid_email(f.email) THEN [status |-> 400, detail |-> MSG_MAIL_BAD]
    ELSE [status |-> 200, detail |-> <<>>]

\* a slip: the e-mail pattern checked before the length limits
CheckRules_ShapeFirst(f) ==
    IF f.nome = <<>> \/ f.email = <<>> \/ f.mensagem = <<>> THEN [status |-> 400, detail |-> MSG_EMPTY]
    ELSE IF ~is_valid_email(f.email) THEN [status |-> 400, detail |-> MSG_MAIL_BAD]
    ELSE IF Len(f.nome) > MAX_NAME_LEN THEN [status |-> 400, detail |-> MSG_NAME_LONG]
    ELSE IF Len(f.email) > MAX_EMAIL_LEN THEN [status |-> 400, detail |-> MSG_MAIL_LONG]
    ELSE IF Len(f.mensagem) > MAX_MESSAGE_LEN THEN [status |-> 400, detail |-> MSG_TEXT_LONG]
    ELSE [status |-> 200, detail |-> <<>>]

\* the five checks on the sanitized fields; status 200 stands for "no
\* HTTPException raised"
CheckRules(f) ==
    IF f.nome = <<>> \/ f.email = <<>> \/ f.mensagem = <<>> THEN [status |-> 400, detail |-> MSG_EMPTY]
    ELSE IF Len(f.nome) > MAX_NAME_LEN THEN [status |-> 400, detail |-> MSG_NAME_LONG]
    ELSE IF Len(f.email) > MAX_EMAIL_LEN THEN [status |-> 400, detail |-> MSG_MAIL_LONG]
    ELSE IF Len(f.mensagem) > MAX_MESSAGE_LEN THEN [status |-> 400, detail |-> MSG_TEXT_LONG]
    ELSE IF ~is_valid_email(f.email) THEN [status |-> 400, detail |-> MSG_MAIL_BAD]
    ELSE [status |-> 200, detail |-> <<>>]

\* the whole function: kind "return" carries the cleaned fields, "http" the
\* HTTPException(400), "raise" any other exception
validate_contact_fields(data) ==
    LET s == SanitizeFields(data)
        c == CheckRules(s.f)
    IN  IF s.exc # ""
          THEN [kind |-> "raise", exc |-> s.exc, status |-> 0, detail |-> <<>>, campos |-> NoFields]
        ELSE IF c.status = 400
          THEN [kind |-> "http", exc |-> "HTTPException", status |-> 400, detail |-> c.detail, campos |-> NoFields]
        ELSE [kind |-> "return", exc |-> "", status |-> 0, detail |-> <<>>, campos |-> s.f]

---------------------------------------------------------------------------
(* Configuration: os.getenv(NAME, "").strip() at import *)

\* what the process environment may hold for a name: unset, blank, a value
EnvRaw(name) ==
    LET val == CASE name = "EMAIL_SENDER"   -> "s"
                 [] name = "EMAIL_PASSWORD" -> "p"
                 [] name = "EMAIL_RECEIVER" -> "r"
    IN  {<<>>, <<SP>>, <<val, SP>>}

LoadEnv(environ) ==
    [EMAIL_SENDER   |-> Strip(environ.EMAIL_SENDER),
     EMAIL_PASSWORD |-> Strip(environ.EMAIL_PASSWORD),
     EMAIL_RECEIVER |-> Strip(environ.EMAIL_RECEIVER)]

Environs ==
    {[EMAIL_SENDER |-> a, EMAIL_PASSWORD |-> b, EMAIL_RECEIVER |-> c] :
        a \in EnvRaw("EMAIL_SENDER"), b \in EnvRaw("EMAIL_PASSWORD"), c \in EnvRaw("EMAIL_RECEIVER")}

\* a slip: the credential left out of the check
missing_envs_NoPassword ==
    (IF env.EMAIL_SENDER = <<>> THEN <<"EMAIL_SENDER">> ELSE <<>>)
    \o (IF env.EMAIL_RECEIVER = <<>> THEN <<"EMAIL_RECEIVER">> ELSE <<>>)

missing_envs ==
    (IF env.EMAIL_SENDER = <<>> THEN <<"EMAIL_SENDER">> ELSE <<>>)
    \o (IF env.EMAIL_PASSWORD = <<>> THEN <<"EMAIL_PASSWORD">> ELSE <<>>)
    \o (IF env.EMAIL_RECEIVER = <<>> THEN <<"EMAIL_RECEIVER">> ELSE <<>>)

\* sep.join(names)
RECURSIVE Join(_, _)
Join(names, sep) ==
    IF names = <<>> THEN <<>>
    ELSE IF Len(names) = 1 THEN names
    ELSE <<Head(names), sep>> \o Join(Tail(names), sep)

---------------------------------------------------------------------------
(* build_email *)

NoEmail == [From |-> <<>>, To |-> <<>>, Subject |-> <<>>, content |-> <<>>]

\* a slip: the message text left out of the body
build_email_NoText(nome, email, mensagem) ==
    [From    |-> env.EMAIL_SENDER,
     To      |-> env.EMAIL_RECEIVER,
     Subject |-> <<"[Portfólio] Contato de ">> \o nome,
     content |-> <<"Você recebeu uma nova mensagem pelo portfólio:\n\n">>
                 \o <<"Nome: ">> \o nome \o <<LF>>
                 \o <<"E-mail: ">> \o email \o <<LF, LF>>
                 \o <<"Mensagem:\n">> \o <<LF>>]

build_email(nome, email, mensagem) ==
    [From    |-> env.EMAIL_SENDER,
     To      |-> env.EMAIL_RECEIVER,
     Subject |-> <<"[Portfólio] Contato de ">> \o nome,
     content |-> <<"Você recebeu uma nova mensagem pelo portfólio:\n\n">>
                 \o <<"Nome: ">> \o nome \o <<LF>>
                 \o <<"E-mail: ">> \o email \o <<LF, LF>>
                 \o <<"Mensagem:\n">> \o mensagem \o <<LF>>]

---------------------------------------------------------------------------
(* Responses *)

NoResponse == [status |-> 0, key |-> "", val |-> <<>>]

HTTPException(status, detail) == [status |-> status, key |-> "detail", val |-> detail]

\* what the framework answers when an exception that is no HTTPException
\* leaves the handler
UnhandledError == [status |-> 500, key |-> "text", val |-> <<"Internal Server Error">>]

MSG_JSON == <<"JSON inválido.">>
MSG_SEND == <<"Erro ao enviar mensagem, tente novamente mais tarde.">>
MSG_OK   == <<"Mensagem enviada com sucesso!">>
MSG_CONF == <<"Erro de configuração: faltando ">>

\* what send_email_sync can end with: a return, or an exception of the
\* connection, the login or the protocol
SendErrors == {"ConnectionRefusedError", "SMTPAuthenticationError", "SMTPDataError"}
SendOutcomes == {"ok"} \cup SendErrors

\* a slip: the exception's text put into the detail
SendFailure_Leaky(e) == HTTPException(500, MSG_SEND \o <<e>>)

\* the except branch of send_email
SendFailure(e) == HTTPException(500, MSG_SEND)

---------------------------------------------------------------------------
(* Requests *)

Reqs == 1..NumReqs

\* the state of a handler coroutine: its position, its locals (data, the
\* sanitized fields f, campos, em), what send_email_sync ended with, the
\* response sent, and the steps it has run so far
NewRequest ==
    [pc |-> "idle", route |-> "", data |-> Malformed, f |-> NoFields, campos |-> NoFields,
     em |-> NoEmail, sent |-> "", resp |-> NoResponse, hist |-> <<>>]

\* the handler ends with response x
Finish(q, x) == [q EXCEPT !.pc = "done", !.resp = x, !.hist = Append(@, "respond")]

\* the handler moves on to position p, having run step
Goto(q, p, step) == [q EXCEPT !.pc = p, !.hist = Append(@, step)]

\* bodies of the submissions of Spec: one value of every kind per field
NomeIn  == {JNull, JZero, JFive, JStr(<<SP>>), JStr(<<NUL, "A", "n", SP>>), JStr(<<"B">>),
            JStr(<<"A", "n", "a">>)}
EmailIn == {JNull, JFive, JStr(<<LF>>), JStr(<<SP, "a", "@", "b", ".", "c">>), JStr(<<"d", "@", ".", ".", "f">>),
            JStr(<<"a", "@", "b", ".", "c", "c">>), JStr(<<"a", "b", ".", "c">>), JStr(<<"a", "@", "@", ".", "c">>)}
TextIn  == {JNull, JFive, JStr(<<DEL>>), JStr(<<"O", "i", LF>>), JStr(<<"a", SP>>), JStr(<<"O", "l", "á">>)}
Bodies  == {Malformed, JList} \cup {JDict(n, e, m) : n \in NomeIn, e \in EmailIn, m \in TextIn}

\* bodies of the concurrent submissions of SpecConc
ValidBody  == JDict(JStr(<<NUL, "A", "n", SP>>), JStr(<<SP, "a", "@", "b", ".", "c">>), JStr(<<"O", "i", LF>>))
OtherValid == JDict(JStr(<<"B">>), JStr(<<"d", "@", "e", ".", "f">>), JStr(<<"!">>))
ConcBodies == {Malformed, JList, ValidBody, OtherValid,
               JDict(JStr(<<SP>>), JStr(<<"a", "@", "b", ".", "c">>), JStr(<<"O", "i">>)),
               JDict(JStr(<<"A">>), JFive, JStr(<<"O", "i">>))}

---------------------------------------------------------------------------
(* POST /contato/ : contato *)

\* the request reaches the server; the handler starts and waits for the body
\* at "await request.json()"
Arrive(r, B) ==
    /\ req[r].pc = "idle"
    /\ \E b \in B : req' = [req EXCEPT ![r] = [@ EXCEPT !.pc = "recv", !.route = "POST /contato/", !.data = b]]
    /\ UNCHANGED <<env, loop, pool, smtp, arg, ret>>

\* the body is in: the event loop resumes the handler, request.json() returns
\* or raises
ParseJson(r) ==
    /\ req[r].pc = "recv"
    /\ loop = 0
    /\ IF req[r].data.kind = "malformed"
         THEN /\ req' = [req EXCEPT ![r] = Finish(Goto(@, "json", "json"), HTTPException(400, MSG_JSON))]
              /\ loop' = 0
         ELSE /\ req' = [req EXCEPT ![r] = Goto(@, "sanitize", "json")]
              /\ loop' = r
    /\ UNCHANGED <<env, pool, smtp, arg, ret>>

\* a slip: the sanitized fields kept in module globals that every handler
\* under way reads
Sanitize_Shared(r) ==
    /\ req[r].pc = "sanitize"
    /\ loop = r
    /\ LET s == SanitizeFields(req[r].data)
       IN  IF s.exc # ""
             THEN /\ req' = [req EXCEPT ![r] = Finish(Goto(@, "sanitize", "sanitize"), UnhandledError)]
                  /\ loop' = 0
             ELSE /\ req' = [q \in Reqs |->
                               IF q = r THEN [Goto(req[q], "validate", "sanitize") EXCEPT !.f = s.f]
                               ELSE IF req[q].pc = "recv" THEN [req[q] EXCEPT !.f = s.f]
                               ELSE req[q]]
                  /\ loop' = r
    /\ UNCHANGED <<env, pool, smtp, arg, ret>>

\* validate_contact_fields, first half: the three fields are read and sanitized
Sanitize(r) ==
    /\ req[r].pc = "sanitize"
    /\ loop = r
    /\ LET s == SanitizeFields(req[r].data)
       IN  IF s.exc # ""
             THEN /\ req' = [req EXCEPT ![r] = Finish(Goto(@, "sanitize", "sanitize"), UnhandledError)]
                  /\ loop' = 0
             ELSE /\ req' = [req EXCEPT ![r] = [Goto(@, "validate", "sanitize") EXCEPT !.f = s.f]]
                  /\ loop' = r
    /\ UNCHANGED <<env, pool, smtp, arg, ret>>

\* validate_contact_fields, second half: the rules
Validate(r) ==
    /\ req[r].pc = "validate"
    /\ loop = r
    /\ LET c == CheckRules(req[r].f)
       IN  IF c.status = 400
             THEN /\ req' = [req EXCEPT ![r] = Finish(Goto(@, "validate", "validate"), HTTPException(400, c.detail))]
                  /\ loop' = 0
             ELSE /\ req' = [req EXCEPT ![r] = [Goto(@, "checkenv", "validate") EXCEPT !.campos = req[r].f]]
                  /\ loop' = r
    /\ UNCHANGED <<env, pool, smtp, arg, ret>>

\* env_missing = missing_envs() and the 500 that lists it
CheckConfig(r) ==
    /\ req[r].pc = "checkenv"
    /\ loop = r
    /\ IF missing_envs # <<>>
         THEN /\ req' = [req EXCEPT ![r] = Finish(Goto(@, "checkenv", "check-config"),
                                                  HTTPException(500, MSG_CONF \o Join(missing_envs, ", ")))]
              /\ loop' = 0
         ELSE /\ req' = [req EXCEPT ![r] = Goto(@, "build", "check-config")]
              /\ loop' = r
    /\ UNCHANGED <<env, pool, smtp, arg, ret>>

\* em = build_email(...)
Build(r) ==
    /\ req[r].pc = "build"
    /\ loop = r
    /\ req' = [req EXCEPT ![r] = [Goto(@, "dispatch", "build") EXCEPT
                  !.em = build_email(req[r].campos.nome, req[r].campos.email, req[r].campos.mensagem)]]
    /\ UNCHANGED <<env, loop, pool, smtp, arg, ret>>

\* send_email calls send_email_sync(em) itself: the call runs on the thread
\* of the event loop, nothing is handed to EXECUTOR
SendStart(r) ==
    /\ req[r].pc = "dispatch"
    /\ loop = r
    /\ req' = [req EXCEPT ![r] = Goto(@, "sending", "dispatch")]
    /\ smtp' = Append(smtp, <<r, req[r].em>>)
    /\ UNCHANGED <<env, loop, pool, arg, ret>>

\* a slip: a failed send tried again
SendReturn_Retry(r) ==
    /\ req[r].pc = "sending"
    /\ loop = r
    /\ Len(smtp) < 3
    /\ \E o \in SendOutcomes :
         IF o = "ok"
           THEN /\ req' = [req EXCEPT ![r] = [@ EXCEPT !.pc = "respond", !.sent = o]]
           ELSE /\ req' = [req EXCEPT ![r] = [@ EXCEPT !.pc = "dispatch", !.sent = o]]
    /\ UNCHANGED <<env, loop, pool, smtp, arg, ret>>

\* send_email_sync returns or raises; send_email turns what it raises into
\* the 500
SendReturn(r) ==
    /\ req[r].pc = "sending"
    /\ loop = r
    /\ \E o \in SendOutcomes :
         IF o = "ok"
           THEN /\ req' = [req EXCEPT ![r] = [@ EXCEPT !.pc = "respond", !.sent = o]]
                /\ loop' = r
           ELSE /\ req' = [req EXCEPT ![r] = [Finish(@, SendFailure(o)) EXCEPT !.sent = o]]
                /\ loop' = 0
    /\ UNCHANGED <<env, pool, smtp, arg, ret>>

\* return JSONResponse({"msg": ...})
Respond(r) ==
    /\ req[r].pc = "respond"
    /\ loop = r
    /\ req' = [req EXCEPT ![r] = Finish(@, [status |-> 200, key |-> "msg", val |-> MSG_OK])]
    /\ loop' = 0
    /\ UNCHANGED <<env, pool, smtp, arg, ret>>

---------------------------------------------------------------------------
(* GET /healthz : healthz *)

ArriveHealthz(r) ==
    /\ req[r].pc = "idle"
    /\ req' = [req EXCEPT ![r] = [@ EXCEPT !.pc = "ready", !.route = "GET /healthz"]]
    /\ UNCHANGED <<env, loop, pool, smtp, arg, ret>>

\* the handler has no await: it runs in one piece once the loop is free
Healthz(r) ==
    /\ req[r].pc = "ready"
    /\ loop = 0
    /\ req' = [req EXCEPT ![r] = Finish(@, [status |-> 200, key |-> "missing_envs", val |-> missing_envs])]
    /\ UNCHANGED <<env, loop, pool, smtp, arg, ret>>

---------------------------------------------------------------------------
(* Specifications *)

NoCall == [fn |-> "", text |-> <<>>, data |-> Malformed]
NoReturn == [n |-> 0, text |-> <<>>, again |-> <<>>,
             v |-> [kind |-> "", exc |-> "", status |-> 0, detail |-> <<>>, campos |-> NoFields]]

ServerInit ==
    /\ \E environ \in Environs : env = LoadEnv(environ)
    /\ req = [r \in Reqs |-> NewRequest]
    /\ loop = 0
    /\ pool = {}
    /\ smtp = <<>>

Init ==
    /\ ServerInit
    /\ arg = NoCall
    /\ ret = NoReturn

Step(r) ==
    \/ ParseJson(r)
    \/ Sanitize(r)
    \/ Validate(r)
    \/ CheckConfig(r)
    \/ Build(r)
    \/ SendStart(r)
    \/ SendReturn(r)
    \/ Respond(r)
    \/ Healthz(r)

\* one request at a time, every kind of body
Next ==
    \/ Arrive(1, Bodies)
    \/ ArriveHealthz(1)
    \/ Step(1)

Spec == Init /\ [][Next]_vars

\* NumReqs requests in flight together
NextConc ==
    \E r \in Reqs :
        \/ Arrive(r, ConcBodies)
        \/ ArriveHealthz(r)
        \/ Step(r)

SpecConc == Init /\ [][NextConc]_vars

---------------------------------------------------------------------------
(* Direct calls of the pure functions *)

FullEnviron == [EMAIL_SENDER |-> <<"s", SP>>, EMAIL_PASSWORD |-> <<"p", SP>>, EMAIL_RECEIVER |-> <<"r", SP>>]

ServerIdle ==
    /\ env = LoadEnv(FullEnviron)
    /\ req = [r \in Reqs |-> NewRequest]
    /\ loop = 0
    /\ pool = {}
    /\ smtp = <<>>

\* sanitize_text on every text of at most MaxLen characters, then on its result
InitSan ==
    /\ ServerIdle
    /\ \E t \in Strs(Chars, MaxLen) : arg = [fn |-> "sanitize_text", text |-> t, data |-> Malformed]
    /\ ret = NoReturn

CallSanitize ==
    /\ arg.fn = "sanitize_text"
    /\ ret.n = 0
    /\ ret' = [ret EXCEPT !.n = 1, !.text = sanitize_text(arg.text)]
    /\ UNCHANGED <<env, req, loop, pool, smtp, arg>>

CallSanitizeAgain ==
    /\ arg.fn = "sanitize_text"
    /\ ret.n = 1
    /\ ret' = [ret EXCEPT !.n = 2, !.again = sanitize_text(ret.text)]
    /\ UNCHANGED <<env, req, loop, pool, smtp, arg>>

NextSan == CallSanitize \/ CallSanitizeAgain

SpecSan == InitSan /\ [][NextSan]_vars

\* validate_contact_fields on a body: nome and mensagem run from empty to
\* Over past their limit, email is every text over a, @ and . up to Over past
\* its limit
Letters(n) == Strs({"a"}, n)
NameVals  == {JNull, JZero, JFive}
             \cup {JStr(x) : x \in Letters(MAX_NAME_LEN + Over) \cup {<<SP>>, <<SP, "a", LF>>}}
TextVals  == {JNull, JZero, JFive}
             \cup {JStr(x) : x \in Letters(MAX_MESSAGE_LEN + Over) \cup {<<NUL>>, <<DEL, "a", NBSP>>}}
EmailVals == {JNull, JFive} \cup {JStr(x) : x \in Strs({"a", "@", "."}, MAX_EMAIL_LEN + Over)}
ValData   == {JList} \cup {JDict(n, e, m) : n \in NameVals, e \in EmailVals, m \in TextVals}

InitVal ==
    /\ ServerIdle
    /\ \E d \in ValData : arg = [fn |-> "validate_contact_fields", text |-> <<>>, data |-> d]
    /\ ret = NoReturn

CallValidate ==
    /\ arg.fn = "validate_contact_fields"
    /\ ret.n = 0
    /\ ret' = [ret EXCEPT !.n = 1, !.v = validate_contact_fields(arg.data)]
    /\ UNCHANGED <<env, req, loop, pool, smtp, arg>>

NextVal == CallValidate

SpecVal == InitVal /\ [][NextVal]_vars

---------------------------------------------------------------------------
(* Vocabulary of the properties *)

Posts == {r \in Reqs : req[r].route = "POST /contato/"}

\* the calls of send_email_sync made for request r
Dispatches(r) == {i \in 1..Len(smtp) : smtp[i][1] = r}

\* sub occurs in s as a run of consecutive characters
Contains(s, sub) ==
    \E i \in 0..Len(s) : i + Len(sub) <= Len(s) /\ SubSeq(s, i + 1, i + Len(sub)) = sub

IsPrefix(p, s) == Len(p) <= Len(s) /\ SubSeq(s, 1, Len(p)) = p

\* the values after sanitization exist: the body is an object and each field
\* is a string, or a falsy value that "or" replaces by the empty string
HasClean(data) ==
    /\ data.kind = "dict"
    /\ \A x \in {data.nome, data.email, data.mensagem} : x.t = "string" \/ ~Truthy(x)

CleanOf(x) == IF x.t = "string" THEN Strip(RemoveControl(x.v)) ELSE <<>>

Clean(data) == [nome |-> CleanOf(data.nome), email |-> CleanOf(data.email), mensagem |-> CleanOf(data.mensagem)]

\* <nonempty>@<nonempty>.<nonempty>, the three parts being any non-empty texts
ShapeLoose(s) ==
    \E i, j \in 1..Len(s) : s[i] = "@" /\ s[j] = "." /\ 1 < i /\ i + 1 < j /\ j < Len(s)

\* the same with no "@" inside the three parts
ShapeStrict(s) ==
    \E i, j \in 1..Len(s) :
        /\ s[i] = "@" /\ s[j] = "." /\ 1 < i /\ i + 1 < j /\ j < Len(s)
        /\ \A k \in 1..Len(s) : s[k] = "@" => k = i

WithinLimits(f) ==
    /\ f.nome # <<>> /\ f.email # <<>> /\ f.mensagem # <<>>
    /\ Len(f.nome) <= MAX_NAME_LEN
    /\ Len(f.email) <= MAX_EMAIL_LEN
    /\ Len(f.mensagem) <= MAX_MESSAGE_LEN

\* the body passes validation
Valid(data) == HasClean(data) /\ WithinLimits(Clean(data)) /\ ShapeStrict(Clean(data).email)

MissingNames == {n \in {"EMAIL_SENDER", "EMAIL_PASSWORD", "EMAIL_RECEIVER"} : env[n] = <<>>}

\* the names a configuration detail lists
ListedNames(val) == {val[i] : i \in 2..Len(val)} \ {", "}

ConfigDetail(x) ==
    /\ x.status = 500 /\ x.key = "detail"
    /\ Len(x.val) >= 2 /\ x.val[1] = MSG_CONF[1]

---------------------------------------------------------------------------
(* C6 *)

\* C6: what sanitize_text returns holds no ASCII control character and has no
\* whitespace at either end, and sanitizing that result again returns it unchanged.
C6_SanitizeCleanIdempotent ==
    /\ ret.n >= 1 =>
         /\ \A i \in 1..Len(ret.text) : ret.text[i] \notin ControlChars
         /\ ret.text # <<>> => ret.text[1] \notin Whitespace /\ ret.text[Len(ret.text)] \notin Whitespace
    /\ ret.n = 2 => ret.again = ret.text

\* a text with a control character in front of a leading blank has been sanitized twice
C6_Witness ==
    /\ ret.n = 2
    /\ Len(arg.text) >= 3 /\ arg.text[1] \in ControlChars /\ arg.text[2] \in Whitespace
    /\ ret.text # <<>> /\ ret.text # arg.text

---------------------------------------------------------------------------
(* C5, C8 *)

\* C5 as stated: validate_contact_fields returns the sanitized fields exactly
\* when they are non-empty, within the limits, and the email has the shape
\* <nonempty>@<nonempty>.<nonempty>.
C5_AsStated ==
    ret.n = 1 =>
        (ret.v.kind = "return"
            <=> HasClean(arg.data) /\ WithinLimits(Clean(arg.data)) /\ ShapeLoose(Clean(arg.data).email))

\* C5 amended: validate_contact_fields returns the sanitized fields exactly
\* when they are non-empty, within the limits (a field of exactly the maximum
\* passes), and the email is <nonempty>@<nonempty>.<nonempty> with no "@"
\* inside the three parts; any other sanitized input is answered with a 400.
C5_ValidateIff ==
    ret.n = 1 =>
        /\ ret.v.kind = "return" <=> Valid(arg.data)
        /\ ret.v.kind = "return" => ret.v.campos = Clean(arg.data)
        /\ HasClean(arg.data) /\ ~Valid(arg.data) => ret.v.kind = "http" /\ ret.v.status = 400

\* every field at exactly its maximum has been accepted
C5_Witness ==
    /\ ret.n = 1 /\ ret.v.kind = "return"
    /\ Len(ret.v.campos.nome) = MAX_NAME_LEN
    /\ Len(ret.v.campos.email) = MAX_EMAIL_LEN
    /\ Len(ret.v.campos.mensagem) = MAX_MESSAGE_LEN

\* the rules in the order of the claim, on the sanitized fields
Violates(f, k) ==
    CASE k = 1 -> f.nome = <<>> \/ f.email = <<>> \/ f.mensagem = <<>>
      [] k = 2 -> Len(f.nome) > MAX_NAME_LEN
      [] k = 3 -> Len(f.email) > MAX_EMAIL_LEN
      [] k = 4 -> Len(f.mensagem) > MAX_MESSAGE_LEN
      [] k = 5 -> ~ShapeStrict(f.email)

RuleMessage == <<MSG_EMPTY, MSG_NAME_LONG, MSG_MAIL_LONG, MSG_TEXT_LONG, MSG_MAIL_BAD>>

\* C8: a 400 of the validator carries the message of the first rule, in the
\* order empty / name / email / message length / email shape, that the
\* sanitized input violates; the five messages differ.
C8_FirstFailingRule ==
    /\ Cardinality({RuleMessage[k] : k \in 1..5}) = 5
    /\ ret.n = 1 /\ ret.v.kind = "http" =>
         /\ ret.v.status = 400
         /\ HasClean(arg.data)
         /\ \E k \in 1..5 :
              /\ Violates(Clean(arg.data), k)
              /\ \A j \in 1..(k - 1) : ~Violates(Clean(arg.data), j)
              /\ ret.v.detail = RuleMessage[k]
    /\ ret.n = 1 /\ HasClean(arg.data) /\ (\E k \in 1..5 : Violates(Clean(arg.data), k)) =>
         ret.v.kind = "http"

\* a name too long together with a malformed email was answered with the name's message
C8_Witness ==
    /\ ret.n = 1 /\ ret.v.kind = "http"
    /\ Violates(Clean(arg.data), 2) /\ Violates(Clean(arg.data), 5)
    /\ ret.v.detail = MSG_NAME_LONG

---------------------------------------------------------------------------
(* C1, C2, C3, C9, C10: one submission *)

C2_AsStated ==
    \A r \in Posts :
        MissingNames # {} =>
            /\ Dispatches(r) = {}
            /\ req[r].pc = "done" =>
                 /\ ConfigDetail(req[r].resp)
                 /\ ListedNames(req[r].resp.val) = MissingNames

\* C2 amended: while a configuration value is missing nothing is dispatched
\* for any submission, and every submission whose body parses and passes
\* validation is answered with the 500 whose detail lists exactly the missing
\* names, each once.
C2_MissingConfigListed ==
    \A r \in Posts :
        MissingNames # {} =>
            /\ Dispatches(r) = {}
            /\ req[r].pc = "done" /\ Valid(req[r].data) =>
                 /\ ConfigDetail(req[r].resp)
                 /\ ListedNames(req[r].resp.val) = MissingNames
                 /\ Len(req[r].resp.val) = 2 * Cardinality(MissingNames)

\* a valid submission was refused with a list of two missing names
C2_Witness ==
    \E r \in Posts :
        /\ req[r].pc = "done" /\ ConfigDetail(req[r].resp)
        /\ Cardinality(MissingNames) = 2
        /\ "EMAIL_PASSWORD" \in ListedNames(req[r].resp.val)

\* C3: whatever send_email_sync raises, the submission is answered 500 with
\* the fixed detail "Erro ao enviar mensagem, tente novamente mais tarde."
\* and nothing else: the error's text is not in the response.
C3_SendFailureGeneric ==
    \A r \in Posts :
        req[r].pc = "done" /\ req[r].sent \in SendErrors =>
            /\ req[r].resp = [status |-> 500, key |-> "detail", val |-> MSG_SEND]
            /\ \A i \in 1..Len(req[r].resp.val) : req[r].resp.val[i] # req[r].sent

\* a send that failed at the login has been answered
C3_Witness ==
    \E r \in Posts : req[r].pc = "done" /\ req[r].sent = "SMTPAuthenticationError" /\ Dispatches(r) # {}

Pipeline == <<"json", "sanitize", "validate", "check-config", "build", "dispatch">>

\* C9: the steps a submission has run are an initial part of
\* parse, sanitize, validate, check-config, build, dispatch, each once, closed
\* by exactly one response; a dispatch is made at most once (never again after
\* a failure) and only for a submission that passed validation under a
\* complete configuration.
C9_LinearPipeline ==
    \A r \in Posts :
        LET h    == req[r].hist
            n    == Len(h)
            core == IF n > 0 /\ h[n] = "respond" THEN SubSeq(h, 1, n - 1) ELSE h
        IN  /\ IsPrefix(core, Pipeline)
            /\ req[r].pc = "done" <=> (n > 0 /\ h[n] = "respond")
            /\ req[r].pc = "done" <=> req[r].resp # NoResponse
            /\ Cardinality(Dispatches(r)) = Cardinality({i \in 1..n : h[i] = "dispatch"})
            /\ Dispatches(r) # {} => Valid(req[r].data) /\ MissingNames = {}

\* a submission went through every step, its send failed, and it was answered
C9_Witness ==
    \E r \in Posts :
        /\ req[r].pc = "done" /\ req[r].sent \in SendErrors
        /\ req[r].hist = Pipeline \o <<"respond">>
        /\ Cardinality(Dispatches(r)) = 1

DocumentedResponse(x) ==
    \/ x = [status |-> 200, key |-> "msg", val |-> MSG_OK]
    \/ /\ x.status = 400 /\ x.key = "detail"
       /\ x.val \in {MSG_JSON, MSG_EMPTY, MSG_NAME_LONG, MSG_MAIL_LONG, MSG_TEXT_LONG, MSG_MAIL_BAD}
    \/ x = [status |-> 500, key |-> "detail", val |-> MSG_SEND]
    \/ ConfigDetail(x)

\* C10: every submission whose body parses as JSON is answered with the 200,
\* with a 400 carrying one of the validation messages, or with a 500 carrying
\* the missing-configuration list or the send-failure message.
C10_NoUnhandledError ==
    \A r \in Posts :
        req[r].pc = "done" /\ req[r].data.kind # "malformed" => DocumentedResponse(req[r].resp)

---------------------------------------------------------------------------
(* C4, C7: submissions in flight together *)

\* C4: while send_email_sync runs for a submission and another request waits
\* for the event loop, the send runs on a worker of EXECUTOR and the
\* event-loop thread is free to run the waiting handler.
C4_SendOffTheLoop ==
    \A r \in Posts, q \in Reqs :
        req[r].pc = "sending" /\ req[q].pc \in {"recv", "ready"} => r \in pool /\ loop = 0

\* the response the handler gives a submission handled alone
Alone(data, sent) ==
    IF data.kind = "malformed" THEN HTTPException(400, MSG_JSON)
    ELSE LET v == validate_contact_fields(data)
         IN  IF v.kind = "raise" THEN UnhandledError
             ELSE IF v.kind = "http" THEN HTTPException(400, v.detail)
             ELSE IF missing_envs # <<>> THEN HTTPException(500, MSG_CONF \o Join(missing_envs, ", "))
             ELSE IF sent = "ok" THEN [status |-> 200, key |-> "msg", val |-> MSG_OK]
             ELSE SendFailure(sent)

C7_Step ==
    /\ env' = env
    /\ \E r \in Reqs : \A q \in Reqs \ {r} : req'[q] = req[q]
    /\ \A r \in Reqs :
         /\ req[r].pc # "idle" => req'[r].data = req[r].data
         /\ req'[r].route = "POST /contato/" /\ req'[r].pc = "done" =>
              req'[r].resp = Alone(req'[r].data, req'[r].sent)
         /\ req'[r].pc \in {"dispatch", "sending"} =>
              req'[r].em = build_email(CleanOf(req'[r].data.nome), CleanOf(req'[r].data.email),
                                       CleanOf(req'[r].data.mensagem))

\* C7: in every interleaving a step changes the state of one request only and
\* never the configuration, the message built for a submission is the one of
\* its own fields, and its response is the one it gets when handled alone
\* with the same body, configuration and send result.
C7_Independent == [][C7_Step]_vars

\* two submissions of the same valid body, in flight together, one answered
\* 200 and the other, whose send failed, 500
C7_Witness ==
    \E r, q \in Posts :
        /\ r # q /\ req[r].data = req[q].data
        /\ req[r].pc = "done" /\ req[r].resp.status = 200
        /\ req[q].pc = "done" /\ req[q].sent \in SendErrors /\ req[q].resp.status = 500
        /\ Len(smtp) = 2 /\ smtp[1][1] # smtp[2][1]

=============================================================================
